---- MODULE Spec2Model ----
(***************************************************************************)
(* A model of pants' `peek` goal (src/python/pants/backend/project_info/   *)
(* peek.py): the get_target_data rule, the peek goal rule, the goal        *)
(* applicability map, TargetData.to_dict and the JSON encoder.             *)
(*                                                                         *)
(* Python values are records [t |-> <type name>, v |-> <payload>]: the     *)
(* payload of an atom is its text (what str() gives), the payload of a     *)
(* container is the sequence of its items (a mapping: of <<key, value>>    *)
(* pairs, in insertion order).  JSON output is modelled by its structure,  *)
(* records [t |-> "string" | "number" | "true" | "false" | "null" |        *)
(* "array" | "object", v |-> ...]; an exception that leaves json.dumps is  *)
(* the record [t |-> "TypeError", ...].                                    *)
(***************************************************************************)
EXTENDS Integers, Sequences, FiniteSets, TLC

VARIABLES
    targets,    \* peek/get_target_data: the UnexpandedTargets input (addresses, in input order)
    subsys,     \* PeekSubsystem options
    pc,         \* position of the running rule
    issued,     \* engine queries (Get) issued so far
    completed,  \* engine queries that have returned their result
    tds,        \* TargetDatas returned by get_target_data
    output,     \* the rendered document (result of render_json)
    written,    \* what write_stdout received, in order
    error,      \* the exception that reached the caller
    td,         \* to_dict: the TargetData it is called on
    dict_out,   \* to_dict: its result
    val,        \* encoder: a Python value placed in a record
    slot,       \* encoder: where the value sits in the record
    enc_field,  \* encoder: JSON of Field(val)
    enc_plain   \* encoder: JSON of val

vars == <<targets, subsys, pc, issued, completed, tds, output, written, error,
          td, dict_out, val, slot, enc_field, enc_plain>>

(***************************************************************************)
(* Bounds of the model.                                                    *)
(***************************************************************************)
MaxTargets == 3     \* targets given to one run of peek
MaxLen == 1         \* items of a sequence value handed to the encoder
MaxFields == 2      \* fields of a target handed to to_dict

(***************************************************************************)
(* Python values.                                                          *)
(***************************************************************************)
PyNone == [t |-> "NoneType", v |-> "None"]
PyStr(s) == [t |-> "str", v |-> s]
PyBool(b) == [t |-> "bool", v |-> IF b THEN "True" ELSE "False"]
PyInt(text) == [t |-> "int", v |-> text]
PyObject == [t |-> "object", v |-> "<object>"]
PyTuple(items) == [t |-> "tuple", v |-> items]
PyList(items) == [t |-> "list", v |-> items]
PyDict(pairs) == [t |-> "dict", v |-> pairs]
PyFrozenDict(pairs) == [t |-> "FrozenDict", v |-> pairs]
PyField(value) == [t |-> "Field", v |-> <<value>>]
PyDataclass(pairs) == [t |-> "dataclass", v |-> pairs]

IsNone(o) == o.t = "NoneType"
IsMapping(o) == o.t \in {"dict", "FrozenDict"}

\* Python's ==, as far as the model's values need it: bool is an int (True == 1),
\* every other pair of values is equal when it is the same value.
PyNum(o) == IF o.t = "bool" THEN (IF o.v = "True" THEN "1" ELSE "0") ELSE o.v
PyEq(a, b) ==
    IF a.t \in {"bool", "int"} /\ b.t \in {"bool", "int"}
    THEN PyNum(a) = PyNum(b)
    ELSE a.t = b.t /\ a = b

\* str(o) of an atom is its text; of a tuple, "(" repr of the items ")".
RECURSIVE Str(_)
Repr(o) == IF o.t = "str" THEN "'" \o o.v \o "'" ELSE Str(o)
RECURSIVE ReprItems(_)
ReprItems(items) ==
    IF Len(items) = 0 THEN ""
    ELSE IF Len(items) = 1 THEN Repr(items[1])
    ELSE Repr(items[1]) \o ", " \o ReprItems(Tail(items))
Str(o) ==
    IF o.t = "tuple"
    THEN IF Len(o.v) = 1 THEN "(" \o Repr(o.v[1]) \o ",)" ELSE "(" \o ReprItems(o.v) \o ")"
    ELSE o.v

\* d[k] = v on an insertion-ordered dict: an existing key keeps its place (and its
\* key object) and takes the new value, a new key goes last.
DictSet(pairs, k, v) ==
    IF \E i \in 1..Len(pairs) : PyEq(pairs[i][1], k)
    THEN [i \in 1..Len(pairs) |-> IF PyEq(pairs[i][1], k) THEN <<pairs[i][1], v>> ELSE pairs[i]]
    ELSE Append(pairs, <<k, v>>)
HasKey(pairs, k) == \E i \in 1..Len(pairs) : PyEq(pairs[i][1], k)
DictGet(pairs, k) == pairs[CHOOSE i \in 1..Len(pairs) : PyEq(pairs[i][1], k)][2]
RECURSIVE DictUpdate(_, _)
DictUpdate(pairs, more) ==
    IF Len(more) = 0 THEN pairs
    ELSE DictUpdate(DictSet(pairs, more[1][1], more[1][2]), Tail(more))

\* sorted(seq, key=...), the stable ascending sort; keys[i] is the key of seq[i]
\* (the rank of the key in its order).
sorted(seq, keys) ==
    LET n == Len(seq)
        pos(i) == 1 + Cardinality({j \in 1..n : keys[j] < keys[i]
                                                \/ (keys[j] = keys[i] /\ j < i)})
    IN  [p \in 1..n |-> seq[CHOOSE i \in 1..n : pos(i) = p]]

\* Python's order on the strings of the model (code point order), listed ascending.
StrOrder ==
    << "_applicable_dep_rules", "_dependencies_rules", "_dependents_rules",
       "a_info", "additional_info", "address", "b_info", "dependencies",
       "dependencies_raw", "deploy", "description", "goals", "package", "publish",
       "run", "sources", "sources_fingerprint", "sources_raw", "tags",
       "target_type", "test" >>
StrRank(s) == CHOOSE i \in 1..Len(StrOrder) : StrOrder[i] = s
StrLess(a, b) == StrRank(a) < StrRank(b)

(***************************************************************************)
(* _normalize_value (lines 93-96).                                         *)
(***************************************************************************)
RECURSIVE _normalize_value(_)
RECURSIVE NormalizeItems(_, _)
NormalizeItems(pairs, acc) ==
    IF Len(pairs) = 0 THEN acc
    ELSE NormalizeItems(Tail(pairs),
             DictSet(acc, PyStr(Str(pairs[1][1])), _normalize_value(pairs[1][2])))
_normalize_value(value) ==
    IF IsMapping(value) THEN PyDict(NormalizeItems(value.v, <<>>)) ELSE value

(***************************************************************************)
(* _PeekJsonEncoder.default (lines 184-209) and json.dumps around it.      *)
(***************************************************************************)
RECURSIVE default(_)
default(o) ==
    CASE o.t = "str" -> o
      [] o.t = "NoneType" -> o
      [] o.t = "dataclass" -> PyDict(o.v)
      [] o.t \in {"dict", "FrozenDict"} -> PyDict(o.v)
      [] o.t \in {"tuple", "list"} -> PyList(o.v)
      [] o.t = "Field" -> default(o.v[1])
      [] OTHER -> PyStr(Str(o))

JString(s) == [t |-> "string", v |-> s]
JNumber(s) == [t |-> "number", v |-> s]
JNull == [t |-> "null", v |-> "null"]
JTrue == [t |-> "true", v |-> "true"]
JFalse == [t |-> "false", v |-> "false"]
JArray(items) == [t |-> "array", v |-> items]
JObject(members) == [t |-> "object", v |-> members]
KeyTypeError == [t |-> "TypeError", v |-> "keys must be str, int, float, bool or None"]
IsError(j) == j.t = "TypeError"
FirstError(js) ==
    js[CHOOSE i \in 1..Len(js) : IsError(js[i]) /\ \A k \in 1..(i - 1) : ~IsError(js[k])]

\* The key of a JSON object member: json.dumps accepts str, int, bool and None keys
\* and raises TypeError on any other (skipkeys is off).
KeyOk(k) == k.t \in {"str", "int", "bool", "NoneType"}
JsonKey(k) ==
    CASE k.t = "bool" -> (IF k.v = "True" THEN "true" ELSE "false")
      [] k.t = "NoneType" -> "null"
      [] OTHER -> k.v

RECURSIVE json_dumps(_)
json_dumps(o) ==
    CASE o.t = "str" -> JString(o.v)
      [] o.t = "NoneType" -> JNull
      [] o.t = "bool" -> (IF o.v = "True" THEN JTrue ELSE JFalse)
      [] o.t = "int" -> JNumber(o.v)
      [] o.t \in {"list", "tuple"} ->
            LET items == [i \in 1..Len(o.v) |-> json_dumps(o.v[i])]
            IN  IF \E i \in 1..Len(items) : IsError(items[i])
                THEN FirstError(items) ELSE JArray(items)
      [] o.t = "dict" ->
            LET res == [i \in 1..Len(o.v) |->
                          IF KeyOk(o.v[i][1]) THEN json_dumps(o.v[i][2]) ELSE KeyTypeError]
            IN  IF \E i \in 1..Len(res) : IsError(res[i])
                THEN FirstError(res)
                ELSE JObject([i \in 1..Len(o.v) |-> <<JsonKey(o.v[i][1]), res[i]>>])
      [] OTHER -> json_dumps(default(o))

(***************************************************************************)
(* Targets and the build graph the engine answers from.                    *)
(* An Address is a number (Addresses are totally ordered), AddressSpec its *)
(* `spec` text.  A field of a target is a record: its class's alias, which *)
(* of SourcesField / Dependencies its class derives from ("Field" when     *)
(* neither), whether the class declares `default`, the default, the value. *)
(***************************************************************************)
Addresses == 1..4
AddressSpec == << "//a:bin", "//a:lib", "//b:data", "//b:tests" >>

FieldOf(alias, kind, has_default, default_value, value) ==
    [alias |-> alias, kind |-> kind, has_default |-> has_default,
     default |-> default_value, value |-> value]

DependenciesField(value) == FieldOf("dependencies", "Dependencies", TRUE, PyNone, value)
SourcesField(value) ==
    FieldOf("sources", "SourcesField", TRUE, PyTuple(<<PyStr("*.py")>>), value)
TagsField(value) == FieldOf("tags", "Field", TRUE, PyNone, value)
DescriptionField(value) == FieldOf("description", "Field", TRUE, PyNone, value)

Target(address, alias, field_values) ==
    [address |-> address, alias |-> alias, field_values |-> field_values]
has_field_SourcesField(tgt) ==
    \E i \in 1..Len(tgt.field_values) : tgt.field_values[i].kind = "SourcesField"

\* The BUILD files of the modelled repository.
TargetAt(a) ==
    CASE a = 1 -> Target(1, "pex_binary",
                     << DependenciesField(PyTuple(<<PyStr(":lib")>>)), TagsField(PyNone) >>)
      [] a = 2 -> Target(2, "python_sources",
                     << SourcesField(PyTuple(<<PyStr("*.py")>>)), DependenciesField(PyNone) >>)
      [] a = 3 -> Target(3, "files",
                     << DescriptionField(PyStr("data")), SourcesField(PyTuple(<<PyStr("*.txt")>>)) >>)
      [] a = 4 -> Target(4, "python_tests",
                     << TagsField(PyTuple(<<PyStr("slow")>>)),
                        SourcesField(PyTuple(<<PyStr("*_test.py")>>)) >>)

\* Engine answer to Get(Targets, DependenciesRequest(...)): the specs of the
\* resolved dependencies (generators replaced by their generated targets).
ResolvedDependencies(a) ==
    CASE a = 1 -> << "//a/lib.py:lib" >>
      [] a = 4 -> << "//a/lib.py:lib", "//b/data.txt:data" >>
      [] OTHER -> << >>

\* Engine answer to Get(HydratedSources, ...): the snapshot (files, digest fingerprint).
Snapshot(files, fingerprint) == [t |-> "Snapshot", v |-> <<files, fingerprint>>]
HydratedSnapshot(a) ==
    CASE a = 2 -> Snapshot(PyTuple(<<PyStr("a/lib.py")>>), PyStr("fp-lib"))
      [] a = 3 -> Snapshot(PyTuple(<<PyStr("b/data.txt")>>), PyStr("fp-data"))
      [] OTHER -> Snapshot(PyTuple(<<>>), PyStr("fp-empty"))

\* union_membership[HasAdditionalTargetDataFieldSet], in registration order, with
\* each member's is_applicable and the AdditionalTargetData its rule returns.
AdditionalTargetData(label, data) == [label |-> label, data |-> data]
PluginFieldSets ==
    << [name |-> "BFieldSet", applicable |-> {"pex_binary", "python_sources"},
        info |-> AdditionalTargetData("b_info", PyStr("b"))],
       [name |-> "AFieldSet", applicable |-> {"pex_binary"},
        info |-> AdditionalTargetData("a_info", PyFrozenDict(<< <<PyStr("k"), PyInt("1")>> >>))] >>
is_applicable(field_set_type, tgt) == tgt.alias \in field_set_type.applicable

\* The target family of an address: whether its BUILD file declares
\* __dependencies_rules__ / __dependents_rules__, and what get_ruleset selects for
\* the address (None when no ruleset matches the target).
NoRuleset == PyNone
RuleSet(clauses) == [t |-> "DependencyRuleSet", v |-> clauses]
TargetFamily(a) ==
    IF a \in {1, 2}
    THEN [dependencies_rules |-> TRUE, dependents_rules |-> FALSE]
    ELSE [dependencies_rules |-> FALSE, dependents_rules |-> TRUE]
get_ruleset(direction, a) ==
    CASE direction = "dependencies" /\ a = 1 -> RuleSet(<<PyStr("does"), PyStr("apply")>>)
      [] direction = "dependents" /\ a = 3 -> RuleSet(<<PyStr("fall-through")>>)
      [] OTHER -> NoRuleset

\* Engine answer to Get(DependenciesRuleApplication, ...): one descriptor
\* (a dataclass) per dependency of the target.
DependencyRuleApplication(dep) ==
    PyDataclass(<< <<PyStr("action"), PyStr("ALLOW")>>,
                   <<PyStr("rule_description"), PyStr(dep)>> >>)
ApplicableDepRules(a) ==
    LET deps == ResolvedDependencies(a)
    IN  PyTuple([i \in 1..Len(deps) |-> DependencyRuleApplication(deps[i])])

\* The target roots of the run are the input targets with generators expanded;
\* RootAliases gives the aliases of the roots an input target stands for, and
\* FieldSetApplicable which roots a goal's field set applies to.
RootAliases(a) ==
    CASE a = 1 -> {"pex_binary"}
      [] a = 2 -> {"python_source"}
      [] a = 3 -> {"files"}
      [] a = 4 -> {"python_test"}
FieldSetApplicable(fs, alias) ==
    \/ fs = "PackageFieldSet" /\ alias = "pex_binary"
    \/ fs = "RunFieldSet" /\ alias \in {"pex_binary", "python_source"}
    \/ fs = "TestFieldSet" /\ alias = "python_test"

(***************************************************************************)
(* TargetData and TargetData.to_dict (lines 120-168).                      *)
(***************************************************************************)
TargetData(tgt, expanded_sources, expanded_dependencies, dependencies_rules, dependents_rules, applicable_dep_rules, goals, additional_info) ==
    [target |-> tgt, expanded_sources |-> expanded_sources,
     expanded_dependencies |-> expanded_dependencies,
     dependencies_rules |-> dependencies_rules, dependents_rules |-> dependents_rules,
     applicable_dep_rules |-> applicable_dep_rules, goals |-> goals,
     additional_info |-> additional_info]

\* Line 137: the key a field is emitted under.
FieldKey(f) ==
    IF f.kind \in {"SourcesField", "Dependencies"} THEN f.alias \o "_raw" ELSE f.alias
\* Line 140: the field is left out.
ExcludedField(f, exclude_defaults) ==
    exclude_defaults /\ f.has_default /\ PyEq(f.default, f.value)
\* Lines 135-141: the dict comprehension over target.field_values.
RECURSIVE FieldItems(_, _, _)
FieldItems(field_values, exclude_defaults, acc) ==
    IF Len(field_values) = 0 THEN acc
    ELSE LET f == field_values[1]
         IN  FieldItems(Tail(field_values), exclude_defaults,
                 IF ExcludedField(f, exclude_defaults) THEN acc
                 ELSE DictSet(acc, PyStr(FieldKey(f)), _normalize_value(f.value)))
\* Lines 143-146.
WithExpanded(fields, t) ==
    LET d == DictSet(fields, PyStr("dependencies"), t.expanded_dependencies)
    IN  IF IsNone(t.expanded_sources) THEN d
        ELSE DictSet(DictSet(d, PyStr("sources"), t.expanded_sources.v[1]),
                     PyStr("sources_fingerprint"), t.expanded_sources.v[2])
\* A variant that leaves a rules key out when its value is None.
WithDepRulesSkipNone(fields, t, include_dep_rules) ==
    LET a == IF include_dep_rules /\ ~IsNone(t.dependencies_rules)
             THEN DictSet(fields, PyStr("_dependencies_rules"), t.dependencies_rules)
             ELSE fields
        b == IF include_dep_rules /\ ~IsNone(t.dependents_rules)
             THEN DictSet(a, PyStr("_dependents_rules"), t.dependents_rules)
             ELSE a
    IN  IF include_dep_rules /\ ~IsNone(t.applicable_dep_rules)
        THEN DictSet(b, PyStr("_applicable_dep_rules"), t.applicable_dep_rules)
        ELSE b
\* Lines 148-151.
WithDepRules(fields, t, include_dep_rules) ==
    IF include_dep_rules
    THEN DictSet(DictSet(DictSet(fields,
             PyStr("_dependencies_rules"), t.dependencies_rules),
             PyStr("_dependents_rules"), t.dependents_rules),
             PyStr("_applicable_dep_rules"), t.applicable_dep_rules)
    ELSE fields
\* Lines 153-154.
WithGoals(fields, t) ==
    IF ~IsNone(t.goals) THEN DictSet(fields, PyStr("goals"), t.goals) ELSE fields
\* Lines 156-162.
sorted_by_label(infos) == sorted(infos, [i \in 1..Len(infos) |-> StrRank(infos[i].label)])
RECURSIVE LabelItems(_, _)
LabelItems(infos, acc) ==
    IF Len(infos) = 0 THEN acc
    ELSE LabelItems(Tail(infos), DictSet(acc, PyStr(infos[1].label), infos[1].data))
WithAdditionalInfo(fields, t) ==
    IF ~IsNone(t.additional_info)
    THEN DictSet(fields, PyStr("additional_info"),
                 PyDict(LabelItems(sorted_by_label(t.additional_info.v), <<>>)))
    ELSE fields
\* Line 167: sorted(fields.items()); the keys of a dict are distinct, so the order
\* of the items is the order of their keys.
sorted_items(fields) == sorted(fields, [i \in 1..Len(fields) |-> StrRank(fields[i][1].v)])
\* Lines 164-168.
to_dict(t, exclude_defaults, include_dep_rules) ==
    LET fields == WithAdditionalInfo(WithGoals(WithDepRules(WithExpanded(
                      FieldItems(t.target.field_values, exclude_defaults, <<>>),
                      t), t, include_dep_rules), t), t)
    IN  PyDict(DictUpdate(
            << <<PyStr("address"), PyStr(AddressSpec[t.target.address])>>,
               <<PyStr("target_type"), PyStr(t.target.alias)>> >>,
            sorted_items(fields)))

\* Lines 175-178 (the structure of the document; indentation and the trailing
\* newline are text layout).
RECURSIVE ToDicts(_, _, _)
ToDicts(ts, exclude_defaults, include_dep_rules) ==
    IF Len(ts) = 0 THEN <<>>
    ELSE <<to_dict(ts[1], exclude_defaults, include_dep_rules)>>
         \o ToDicts(Tail(ts), exclude_defaults, include_dep_rules)
render_json(ts, exclude_defaults, include_dep_rules) ==
    json_dumps(PyList(ToDicts(ts, exclude_defaults, include_dep_rules)))

(***************************************************************************)
(* get_target_data (lines 282-408): what it computes between its awaits.   *)
(***************************************************************************)
\* A variant that keeps the input order.
unsorted_targets(ts) == [i \in 1..Len(ts) |-> TargetAt(ts[i])]
\* Line 299.
sorted_targets(ts) == sorted([i \in 1..Len(ts) |-> TargetAt(ts[i])], ts)
\* Line 302.
targets_with_sources(ts) == SelectSeq(sorted_targets(ts), has_field_SourcesField)

\* Lines 319-324: one field set per (target, applicable union member), targets
\* in sorted order and, per target, members in registration order.
FieldSetsFor(tgt) ==
    LET applicable == SelectSeq(PluginFieldSets, LAMBDA p : is_applicable(p, tgt))
    IN  [i \in 1..Len(applicable) |-> [address |-> tgt.address, type |-> applicable[i]]]
RECURSIVE FieldSetsOf(_)
FieldSetsOf(tgts) ==
    IF Len(tgts) = 0 THEN <<>> ELSE FieldSetsFor(tgts[1]) \o FieldSetsOf(Tail(tgts))
additional_info_field_sets(ts) == FieldSetsOf(sorted_targets(ts))

\* Lines 318-337 and 403-405: group_additional_infos_by_address.get(address, default).
additional_info_of(a, ts, include_additional_info) ==
    LET mine == SelectSeq(additional_info_field_sets(ts), LAMBDA fs : fs.address = a)
    IN  IF ~include_additional_info THEN PyNone
        ELSE IF Len(mine) = 0 THEN PyTuple(<<>>)
        ELSE PyTuple([i \in 1..Len(mine) |-> mine[i].type.info])

\* Lines 340-343 and 398: expanded_sources_map.get(address).
expanded_sources_of(tgt) ==
    IF has_field_SourcesField(tgt) THEN HydratedSnapshot(tgt.address) ELSE PyNone
\* Lines 345-348.
expanded_dependencies_of(tgt) ==
    LET deps == ResolvedDependencies(tgt.address)
    IN  PyTuple([i \in 1..Len(deps) |-> PyStr(deps[i])])

\* Lines 212-215.
describe_ruleset(ruleset) == IF IsNone(ruleset) THEN PyNone ELSE PyTuple(ruleset.v)
\* Lines 361-367 and 399: dependencies_rules_map.get(address).
dependencies_rules_of(a, include_dep_rules) ==
    IF include_dep_rules /\ TargetFamily(a).dependencies_rules
    THEN describe_ruleset(get_ruleset("dependencies", a)) ELSE PyNone
\* Lines 369-373 and 400: dependents_rules_map.get(address).
dependents_rules_of(a, include_dep_rules) ==
    IF include_dep_rules /\ TargetFamily(a).dependents_rules
    THEN describe_ruleset(get_ruleset("dependents", a)) ELSE PyNone
\* Lines 375-389 and 401: applicable_dep_rules_map.get(address).
applicable_dep_rules_of(a, include_dep_rules) ==
    IF include_dep_rules THEN ApplicableDepRules(a) ELSE PyNone

\* Lines 394-408.
get_target_data(ts, opts) ==
    LET st == sorted_targets(ts)
    IN  [i \in 1..Len(st) |->
            TargetData(st[i],
                       expanded_sources_of(st[i]),
                       expanded_dependencies_of(st[i]),
                       dependencies_rules_of(st[i].address, opts.include_dep_rules),
                       dependents_rules_of(st[i].address, opts.include_dep_rules),
                       applicable_dep_rules_of(st[i].address, opts.include_dep_rules),
                       PyNone,
                       additional_info_of(st[i].address, ts, opts.include_additional_info))]

(***************************************************************************)
(* _create_target_alias_to_goals_map (lines 218-279).                      *)
(***************************************************************************)
peekable_field_sets ==
    << "DeployFieldSet", "PackageFieldSet", "PublishFieldSet", "RunFieldSet", "TestFieldSet" >>
field_set_to_goal_map(fs) ==
    CASE fs = "DeployFieldSet" -> "deploy"
      [] fs = "PackageFieldSet" -> "package"
      [] fs = "PublishFieldSet" -> "publish"
      [] fs = "RunFieldSet" -> "run"
      [] fs = "TestFieldSet" -> "test"
\* Lines 250-267: the aliases of the targets the engine returns for one field set.
aliases_per_target_root(fs, ts) ==
    {alias \in UNION {RootAliases(ts[i]) : i \in 1..Len(ts)} : FieldSetApplicable(fs, alias)}
\* tuple(sorted(goals)) of a set of goal names.
SortedNames(S) ==
    [p \in 1..Cardinality(S) |->
        PyStr(CHOOSE x \in S : Cardinality({y \in S : StrLess(y, x)}) = p - 1)]
goals_tuple(goals) == PyTuple(SortedNames(goals))
\* Lines 270-279: the map, a function from the aliases that matched to their goals.
_create_target_alias_to_goals_map(ts) ==
    LET fss == {peekable_field_sets[i] : i \in 1..Len(peekable_field_sets)}
        aliases == UNION {aliases_per_target_root(fs, ts) : fs \in fss}
    IN  [alias \in aliases |->
            goals_tuple({field_set_to_goal_map(fs) :
                            fs \in {f \in fss : alias \in aliases_per_target_root(f, ts)}})]

\* A variant that defaults a missing alias to the empty tuple.
goals_of_empty_default(map, alias) ==
    IF alias \in DOMAIN map THEN map[alias] ELSE PyTuple(<<>>)
\* Line 441: target_alias_to_goals_map.get(alias).
goals_of(map, alias) == IF alias \in DOMAIN map THEN map[alias] ELSE PyNone
\* Lines 429-445: the goal-attaching pass of peek.
attach_goals(datas, map) ==
    IF DOMAIN map # {}
    THEN [i \in 1..Len(datas) |->
            TargetData(datas[i].target, datas[i].expanded_sources,
                       datas[i].expanded_dependencies, datas[i].dependencies_rules,
                       datas[i].dependents_rules, datas[i].applicable_dep_rules,
                       goals_of(map, datas[i].target.alias), PyNone)]
    ELSE datas

(***************************************************************************)
(* The engine queries of one run.                                          *)
(***************************************************************************)
Query(kind, address, arg) == [kind |-> kind, address |-> address, arg |-> arg]
\* Lines 305-313.
DependenciesQueries(ts) ==
    {Query("Targets", ts[i], "") : i \in 1..Len(ts)}
\* Lines 314-317.
HydrateQueries(ts) ==
    LET with == targets_with_sources(ts)
    IN  {Query("HydratedSources", with[i].address, "") : i \in 1..Len(with)}
\* Lines 325-328.
AdditionalInfoQueries(ts) ==
    LET fs == additional_info_field_sets(ts)
    IN  {Query("AdditionalTargetData", fs[i].address, fs[i].type.name) : i \in 1..Len(fs)}
\* Lines 356-359.
FamilyQueries == {Query("TargetFamilies", 0, "")}
\* Lines 375-385.
RuleApplicationQueries(ts) ==
    {Query("DependenciesRuleApplication", ts[i], "") : i \in 1..Len(ts)}
\* Lines 250-262.
GoalQueries ==
    {Query("TargetRootsToFieldSets", 0, peekable_field_sets[i]) :
        i \in 1..Len(peekable_field_sets)}

InFlight == issued \ completed
\* A variant that goes on without awaiting the batch.
MultiGetNotAwaited == TRUE
\* `await MultiGet(...)` returns: every Get of the batch has its result.
MultiGetDone == InFlight = {}

(***************************************************************************)
(* The peek goal rule (lines 411-450) with get_target_data inlined at its  *)
(* awaits.  A stage that an option switches off issues no query.           *)
(***************************************************************************)
InputTargets ==
    UNION {{s \in [1..n -> Addresses] : \A i, j \in 1..n : i # j => s[i] # s[j]} :
              n \in 0..MaxTargets}
Options ==
    [exclude_defaults : BOOLEAN, include_dep_rules : BOOLEAN,
     include_additional_info : BOOLEAN]

EngineError(q) == [t |-> "EngineError", v |-> q]
Cancelled == [t |-> "Cancelled", v |-> "cancelled"]

peek_vars == <<targets, subsys, pc, issued, completed, tds, output, written, error>>
to_dict_vars == <<td, dict_out>>
encoder_vars == <<val, slot, enc_field, enc_plain>>

to_dict_idle == td = PyNone /\ dict_out = PyNone
encoder_idle == val = PyNone /\ slot = "" /\ enc_field = PyNone /\ enc_plain = PyNone
peek_idle ==
    /\ issued = {} /\ completed = {} /\ tds = <<>> /\ output = PyNone
    /\ written = <<>> /\ error = PyNone

Init ==
    /\ targets \in InputTargets
    /\ subsys \in Options
    /\ pc = "start"
    /\ peek_idle /\ to_dict_idle /\ encoder_idle

\* Lines 299-313: the dependency-expansion batch is issued.
IssueDependencies ==
    /\ pc = "start"
    /\ issued' = issued \cup DependenciesQueries(targets)
    /\ pc' = "await_dependencies"
    /\ UNCHANGED <<targets, subsys, completed, tds, output, written, error>>
    /\ UNCHANGED <<to_dict_vars, encoder_vars>>

\* Lines 305-317: the first `await MultiGet` returns, the hydration batch is issued.
IssueHydrate ==
    /\ pc = "await_dependencies"
    /\ MultiGetDone
    /\ issued' = issued \cup HydrateQueries(targets)
    /\ pc' = "await_sources"
    /\ UNCHANGED <<targets, subsys, completed, tds, output, written, error>>
    /\ UNCHANGED <<to_dict_vars, encoder_vars>>

\* Lines 314-328.
IssueAdditionalInfo ==
    /\ pc = "await_sources"
    /\ MultiGetDone
    /\ issued' = issued \cup (IF subsys.include_additional_info
                              THEN AdditionalInfoQueries(targets) ELSE {})
    /\ pc' = "await_additional_info"
    /\ UNCHANGED <<targets, subsys, completed, tds, output, written, error>>
    /\ UNCHANGED <<to_dict_vars, encoder_vars>>

\* Lines 325-359.
IssueFamilies ==
    /\ pc = "await_additional_info"
    /\ MultiGetDone
    /\ issued' = issued \cup (IF subsys.include_dep_rules THEN FamilyQueries ELSE {})
    /\ pc' = "await_families"
    /\ UNCHANGED <<targets, subsys, completed, tds, output, written, error>>
    /\ UNCHANGED <<to_dict_vars, encoder_vars>>

\* Lines 356-385.
IssueRuleApplications ==
    /\ pc = "await_families"
    /\ MultiGetDone
    /\ issued' = issued \cup (IF subsys.include_dep_rules
                              THEN RuleApplicationQueries(targets) ELSE {})
    /\ pc' = "await_rule_applications"
    /\ UNCHANGED <<targets, subsys, completed, tds, output, written, error>>
    /\ UNCHANGED <<to_dict_vars, encoder_vars>>

\* Lines 375-408, 425-427 and 250-262: get_target_data returns its TargetDatas to
\* peek, which issues the five goal queries.
ReturnTargetDatas ==
    /\ pc = "await_rule_applications"
    /\ MultiGetDone
    /\ tds' = get_target_data(targets, subsys)
    /\ issued' = issued \cup GoalQueries
    /\ pc' = "await_goals"
    /\ UNCHANGED <<targets, subsys, completed, output, written, error>>
    /\ UNCHANGED <<to_dict_vars, encoder_vars>>

\* Lines 262-279 and 427-446: the goal map, the goal-attaching pass, render_json.
Render ==
    /\ pc = "await_goals"
    /\ MultiGetDone
    /\ LET datas == attach_goals(tds, _create_target_alias_to_goals_map(targets))
           out == render_json(datas, subsys.exclude_defaults, subsys.include_dep_rules)
       IN  /\ tds' = datas
           /\ IF IsError(out)
              THEN pc' = "failed" /\ error' = out /\ output' = output
              ELSE pc' = "rendered" /\ error' = error /\ output' = out
    /\ UNCHANGED <<targets, subsys, issued, completed, written>>
    /\ UNCHANGED <<to_dict_vars, encoder_vars>>

\* A variant that writes on the way out of a failed run as well.
WriteEvenAfterFailure == pc \in {"rendered", "failed"}
\* Lines 448-450.
WriteEnabled == pc = "rendered"
Write ==
    /\ WriteEnabled
    /\ written' = Append(written, output)
    /\ pc' = "done"
    /\ UNCHANGED <<targets, subsys, issued, completed, tds, output, error>>
    /\ UNCHANGED <<to_dict_vars, encoder_vars>>

\* The engine answers a query that is in flight.
Complete(q) ==
    /\ pc \notin {"failed", "done"}
    /\ q \in InFlight
    /\ completed' = completed \cup {q}
    /\ UNCHANGED <<targets, subsys, pc, issued, tds, output, written, error>>
    /\ UNCHANGED <<to_dict_vars, encoder_vars>>

\* A query that is in flight fails: the exception leaves the awaiting rule (no
\* handler anywhere in lines 282-450) and the other queries are abandoned.
Fail(q) ==
    /\ pc \notin {"failed", "done"}
    /\ q \in InFlight
    /\ pc' = "failed"
    /\ error' = EngineError(q)
    /\ UNCHANGED <<targets, subsys, issued, completed, tds, output, written>>
    /\ UNCHANGED <<to_dict_vars, encoder_vars>>

\* The run is cancelled while the rule is suspended at an await.
Abort ==
    /\ pc \in {"await_dependencies", "await_sources", "await_additional_info",
               "await_families", "await_rule_applications", "await_goals"}
    /\ pc' = "failed"
    /\ error' = Cancelled
    /\ UNCHANGED <<targets, subsys, issued, completed, tds, output, written>>
    /\ UNCHANGED <<to_dict_vars, encoder_vars>>

Next ==
    \/ IssueDependencies
    \/ IssueHydrate
    \/ IssueAdditionalInfo
    \/ IssueFamilies
    \/ IssueRuleApplications
    \/ ReturnTargetDatas
    \/ Render
    \/ Write
    \/ \E q \in InFlight : Complete(q)
    \/ \E q \in InFlight : Fail(q)
    \/ Abort

Spec == Init /\ [][Next]_vars

(***************************************************************************)
(* TargetData.to_dict on its own: called on records over targets with up   *)
(* to MaxFields fields drawn from FieldPool.                               *)
(***************************************************************************)
\* Field classes a target type may register.  Besides the core fields: a field
\* whose value is a mapping with non-text keys, a field whose class declares no
\* default, and fields whose alias is a key to_dict itself writes.
FieldPool ==
    << DependenciesField(PyNone),
       DependenciesField(PyTuple(<<PyStr(":lib")>>)),
       SourcesField(PyTuple(<<PyStr("*.py")>>)),
       SourcesField(PyTuple(<<PyStr("*.txt")>>)),
       TagsField(PyNone),
       TagsField(PyFrozenDict(<< <<PyInt("1"), PyStr("x")>> >>)),
       FieldOf("description", "Field", FALSE, PyNone, PyNone),
       FieldOf("dependencies", "Field", TRUE, PyNone, PyTuple(<<PyStr(":special")>>)),
       FieldOf("sources_raw", "Field", TRUE, PyNone, PyStr("raw")),
       FieldOf("address", "Field", TRUE, PyNone, PyStr("1 Main St")) >>

FieldChoices ==
    {S \in SUBSET (1..Len(FieldPool)) :
        /\ Cardinality(S) <= MaxFields
        /\ \A i, j \in S : i # j => FieldPool[i].alias # FieldPool[j].alias}
FieldValuesOf(S) == SelectSeq(FieldPool, LAMBDA f : \E i \in S : FieldPool[i] = f)

DescribedRules == PyTuple(<<PyStr("does"), PyStr("apply")>>)
ToDictInputs(opts) ==
    {TargetData(tgt, expanded_sources_of(tgt), expanded_dependencies_of(tgt),
                rules, rules, applicable_dep_rules_of(1, opts.include_dep_rules),
                goals, info) :
        tgt \in {Target(1, "pex_binary", FieldValuesOf(S)) : S \in FieldChoices},
        rules \in (IF opts.include_dep_rules THEN {PyNone, DescribedRules} ELSE {PyNone}),
        goals \in {PyNone, PyTuple(<<PyStr("run")>>)},
        info \in (IF opts.include_additional_info
                  THEN {PyTuple(<<>>),
                        PyTuple(<<PluginFieldSets[1].info, PluginFieldSets[2].info>>)}
                  ELSE {PyNone})}

InitToDict ==
    /\ subsys \in Options
    /\ td \in ToDictInputs(subsys)
    /\ dict_out = PyNone
    /\ pc = "to_dict"
    /\ targets = <<>>
    /\ peek_idle /\ encoder_idle

\* Lines 133-168.
CallToDict ==
    /\ pc = "to_dict"
    /\ dict_out' = to_dict(td, subsys.exclude_defaults, subsys.include_dep_rules)
    /\ pc' = "returned"
    /\ UNCHANGED <<targets, subsys, issued, completed, tds, output, written, error>>
    /\ UNCHANGED <<td, encoder_vars>>

NextToDict == CallToDict

SpecToDict == InitToDict /\ [][NextToDict]_vars

(***************************************************************************)
(* The encoder on its own: render_json of one record that holds a value    *)
(* in a field, in plugin data or in a dependency-rule descriptor, and the  *)
(* encoding of a value with and without a Field wrapper around it.         *)
(***************************************************************************)
Atoms == {PyStr("a"), PyNone, PyBool(TRUE), PyInt("1"), PyObject}
Keys == {PyStr("k"), PyInt("1"), PyTuple(<<PyStr("a")>>)}
SeqsOver(S) == UNION {[1..n -> S] : n \in 0..MaxLen}
Wrap(S) ==
    {PyTuple(items) : items \in SeqsOver(S)}
    \cup {PyFrozenDict(<< <<k, x>> >>) : k \in Keys, x \in S}
    \cup {PyField(x) : x \in S}
Values == Atoms \cup Wrap(Atoms) \cup Wrap(Atoms \cup Wrap(Atoms))
Slots == {"field", "additional_info", "applicable_dep_rules"}

RecordWith(value, where) ==
    LET tgt == Target(1, "pex_binary",
                      IF where = "field" THEN <<TagsField(value)>> ELSE <<>>)
    IN  TargetData(tgt, PyNone, PyTuple(<<>>), PyNone, PyNone,
                   IF where = "applicable_dep_rules"
                   THEN PyTuple(<<PyDataclass(<< <<PyStr("rule_description"), value>> >>)>>)
                   ELSE PyTuple(<<>>),
                   PyNone,
                   IF where = "additional_info"
                   THEN PyTuple(<<AdditionalTargetData("a_info", value)>>)
                   ELSE PyNone)

InitRender ==
    /\ val \in Values
    /\ slot \in Slots
    /\ enc_field = PyNone /\ enc_plain = PyNone
    /\ pc = "encoder"
    /\ targets = <<>>
    /\ subsys = [exclude_defaults |-> FALSE, include_dep_rules |-> TRUE,
                 include_additional_info |-> TRUE]
    /\ peek_idle /\ to_dict_idle

\* Lines 175-178 on a one-record sequence.
RenderRecord ==
    /\ pc = "encoder"
    /\ output' = render_json(<<RecordWith(val, slot)>>,
                             subsys.exclude_defaults, subsys.include_dep_rules)
    /\ pc' = "rendered"
    /\ UNCHANGED <<targets, subsys, issued, completed, tds, written, error>>
    /\ UNCHANGED <<to_dict_vars, encoder_vars>>

\* json.dumps(..., cls=_PeekJsonEncoder) of Field(val) and of val.
EncodeValue ==
    /\ pc = "encoder"
    /\ enc_field' = json_dumps(PyField(val))
    /\ enc_plain' = json_dumps(val)
    /\ pc' = "encoded"
    /\ UNCHANGED <<targets, subsys, issued, completed, tds, output, written, error>>
    /\ UNCHANGED <<to_dict_vars, val, slot>>

NextRender == RenderRecord \/ EncodeValue

SpecRender == InitRender /\ [][NextRender]_vars

(***************************************************************************)
(* Properties.                                                             *)
(***************************************************************************)
\* Reading the written document: its objects, a member of an object.
Document == written[1]
Objects == Document.v
JHas(obj, key) == \E i \in 1..Len(obj.v) : obj.v[i][1] = key
JGet(obj, key) == obj.v[CHOOSE i \in 1..Len(obj.v) : obj.v[i][1] = key][2]
ObjAddress(obj) == CHOOSE a \in Addresses : AddressSpec[a] = JGet(obj, "address").v
HasWritten == Len(written) > 0
InputAddresses == {targets[i] : i \in 1..Len(targets)}
ApplicablePlugins(a) ==
    {i \in 1..Len(PluginFieldSets) : is_applicable(PluginFieldSets[i], TargetAt(a))}
GoalsMapNonEmpty ==
    \E i \in 1..Len(peekable_field_sets) :
        aliases_per_target_root(peekable_field_sets[i], targets) # {}

\* C1 (as claimed): in the written document, for every target, `additional_info`
\* is absent when include_additional_info is off, an empty object when it is on
\* and no plugin field set applies to the target, and an object with one entry
\* per applicable plugin in ascending label order when it is on and some apply.
AdditionalInfoThreeWay ==
    HasWritten =>
        \A i \in 1..Len(Objects) :
            LET obj == Objects[i]
                n == Cardinality(ApplicablePlugins(ObjAddress(obj)))
            IN  /\ ~subsys.include_additional_info => ~JHas(obj, "additional_info")
                /\ (subsys.include_additional_info /\ n = 0) =>
                        /\ JHas(obj, "additional_info")
                        /\ JGet(obj, "additional_info") = JObject(<<>>)
                /\ (subsys.include_additional_info /\ n > 0) =>
                        /\ JHas(obj, "additional_info")
                        /\ JGet(obj, "additional_info").t = "object"
                        /\ Len(JGet(obj, "additional_info").v) = n
                        /\ \A k \in 1..(n - 1) :
                              StrLess(JGet(obj, "additional_info").v[k][1],
                                      JGet(obj, "additional_info").v[k + 1][1])

\* C2 (as claimed): with include_dep_rules on, a target whose family declares no
\* dependents rules (no dependencies rules) has no `_dependents_rules`
\* (`_dependencies_rules`) key in its object.
RulesKeyAbsentWhenUndeclared ==
    (HasWritten /\ subsys.include_dep_rules) =>
        \A i \in 1..Len(Objects) :
            LET obj == Objects[i]
                family == TargetFamily(ObjAddress(obj))
            IN  /\ ~family.dependents_rules => ~JHas(obj, "_dependents_rules")
                /\ ~family.dependencies_rules => ~JHas(obj, "_dependencies_rules")

\* C2 (amended): with include_dep_rules on, a target whose family declares no
\* dependents rules (no dependencies rules) has the `_dependents_rules`
\* (`_dependencies_rules`) key in its object, with the value null.
RulesKeyNullWhenUndeclared ==
    (HasWritten /\ subsys.include_dep_rules) =>
        \A i \in 1..Len(Objects) :
            LET obj == Objects[i]
                family == TargetFamily(ObjAddress(obj))
            IN  /\ ~family.dependents_rules =>
                        /\ JHas(obj, "_dependents_rules")
                        /\ JGet(obj, "_dependents_rules") = JNull
                /\ ~family.dependencies_rules =>
                        /\ JHas(obj, "_dependencies_rules")
                        /\ JGet(obj, "_dependencies_rules") = JNull
\* C2 witness: a document written with include_dep_rules on that holds a target of
\* a family without dependents rules and one of a family without dependencies rules.
RulesWitness ==
    /\ HasWritten /\ subsys.include_dep_rules
    /\ \E i, j \in 1..Len(Objects) :
          /\ ~TargetFamily(ObjAddress(Objects[i])).dependents_rules
          /\ ~TargetFamily(ObjAddress(Objects[j])).dependencies_rules

\* C3: if none of the five goal queries returns a target, no object has a `goals`
\* key; and always a `goals` key is a non-empty array, a target whose alias
\* matched no query having no `goals` key.
GoalsAbsentOrNonEmpty ==
    HasWritten =>
        \A i \in 1..Len(Objects) :
            LET obj == Objects[i]
                alias == JGet(obj, "target_type").v
                matched == \E k \in 1..Len(peekable_field_sets) :
                              alias \in aliases_per_target_root(peekable_field_sets[k], targets)
            IN  /\ ~GoalsMapNonEmpty => ~JHas(obj, "goals")
                /\ ~matched => ~JHas(obj, "goals")
                /\ JHas(obj, "goals") =>
                        /\ JGet(obj, "goals").t = "array"
                        /\ Len(JGet(obj, "goals").v) > 0
\* C3 witness: a written document in which one object has goals and another,
\* whose alias matched no query, has none.
GoalsWitness ==
    /\ HasWritten
    /\ \E i, j \in 1..Len(Objects) :
          JHas(Objects[i], "goals") /\ ~JHas(Objects[j], "goals")

\* C4: the records get_target_data returns and the objects peek writes are one per
\* input target, in ascending Address order, and are what the pipeline gives on
\* the input arranged in ascending order.
Ascending ==
    [p \in 1..Len(targets) |->
        CHOOSE a \in InputAddresses : Cardinality({b \in InputAddresses : b < a}) = p - 1]
IsAscending(addresses) ==
    \A i, j \in 1..Len(addresses) : i < j => addresses[i] < addresses[j]
OutputInAddressOrder ==
    /\ pc \in {"await_goals", "rendered", "done"} =>
          /\ Len(tds) = Len(targets)
          /\ {tds[i].target.address : i \in 1..Len(tds)} = InputAddresses
          /\ IsAscending([i \in 1..Len(tds) |-> tds[i].target.address])
    /\ pc = "await_goals" => tds = get_target_data(Ascending, subsys)
    /\ HasWritten =>
          /\ Len(Objects) = Len(targets)
          /\ {ObjAddress(Objects[i]) : i \in 1..Len(Objects)} = InputAddresses
          /\ IsAscending([i \in 1..Len(Objects) |-> ObjAddress(Objects[i])])
          /\ Document = render_json(
                 attach_goals(get_target_data(Ascending, subsys),
                              _create_target_alias_to_goals_map(Ascending)),
                 subsys.exclude_defaults, subsys.include_dep_rules)
\* C4 witness: a document written for an input that was not in ascending order.
OrderWitness ==
    /\ HasWritten
    /\ \E i, j \in 1..Len(targets) : i < j /\ targets[i] > targets[j]

\* C5: peek writes at most once, and only the complete document, after every
\* engine query of the run has returned; when a query fails or the run is
\* cancelled, that failure is what reaches the caller and nothing is written.
RunQueries ==
    DependenciesQueries(targets) \cup HydrateQueries(targets) \cup GoalQueries
    \cup (IF subsys.include_additional_info THEN AdditionalInfoQueries(targets) ELSE {})
    \cup (IF subsys.include_dep_rules
          THEN FamilyQueries \cup RuleApplicationQueries(targets) ELSE {})
WrittenOnceAfterAllQueries ==
    /\ Len(written) <= 1
    /\ HasWritten =>
          /\ pc = "done"
          /\ IsNone(error)
          /\ issued = RunQueries
          /\ completed = RunQueries
          /\ Document = output
          /\ Document.t = "array"
          /\ Len(Objects) = Len(targets)
    /\ pc = "failed" =>
          /\ ~HasWritten
          /\ ~IsNone(error)
          /\ error.t = "EngineError" => error.v \in InFlight
    /\ ~IsNone(error) => pc = "failed"
\* C5 witness: the document of a run with both optional stages on, written.
WriteWitness ==
    /\ HasWritten
    /\ Len(targets) >= 2
    /\ subsys.include_dep_rules /\ subsys.include_additional_info

\* C10 (as claimed): once the dependency-expansion queries are all enqueued the
\* source-hydration queries can be issued without waiting for their results, and
\* none is issued before all dependency-expansion queries have been issued.
HydrateIssuedWithoutWaiting ==
    /\ (/\ pc = "await_dependencies"
        /\ DependenciesQueries(targets) \subseteq issued
        /\ HydrateQueries(targets) # {})
          => ENABLED IssueHydrate
    /\ (\E q \in issued : q.kind = "HydratedSources")
          => DependenciesQueries(targets) \subseteq issued

\* C10 (amended): a source-hydration query is issued only after every
\* dependency-expansion query of the run has returned its result, so the two
\* kinds are never in flight at the same time.
HydrateAfterDependenciesReturn ==
    /\ (\E q \in issued : q.kind = "HydratedSources")
          => DependenciesQueries(targets) \subseteq completed
    /\ ~(\E q, r \in InFlight : q.kind = "HydratedSources" /\ r.kind = "Targets")
\* C10 witness: a hydration query in flight in a run of two targets.
HydrateInFlightWitness ==
    /\ Len(targets) >= 2
    /\ \E q \in InFlight : q.kind = "HydratedSources"

\* C6 (as claimed): render_json never fails, whatever value sits in a field, in a
\* dependency-rule descriptor or in plugin data.
RenderNeverFails ==
    pc = "rendered" => ~IsError(output)

\* C7 (as claimed): for a text, null, boolean, number, sequence or mapping value,
\* the JSON of a Field wrapper around it is the JSON of the value.
PlainValue(o) ==
    o.t \in {"str", "NoneType", "bool", "int", "tuple", "list", "dict", "FrozenDict"}
FieldEncodesAsValue ==
    (pc = "encoded" /\ PlainValue(val)) => enc_field = enc_plain

\* C8 (as claimed): with exclude_defaults on, to_dict drops a field exactly when
\* its class declares a default and its value equals it; with exclude_defaults
\* off every field is in the object, under its alias (`<alias>_raw` for
\* sources-like and dependencies-like fields) with its own value.
ClaimedKey(f) ==
    PyStr(IF f.kind \in {"SourcesField", "Dependencies"} THEN f.alias \o "_raw" ELSE f.alias)
FieldShown(f) ==
    /\ HasKey(dict_out.v, ClaimedKey(f))
    /\ DictGet(dict_out.v, ClaimedKey(f)) = _normalize_value(f.value)
OnlyDefaultsDropped ==
    pc = "returned" =>
        \A i \in 1..Len(td.target.field_values) :
            LET f == td.target.field_values[i]
            IN  IF subsys.exclude_defaults
                THEN ~FieldShown(f) <=> (f.has_default /\ PyEq(f.default, f.value))
                ELSE FieldShown(f)

\* C9 (as claimed): the first key of the object is `address`, holding the
\* target's address spec, the second `target_type`, holding its alias, and the
\* remaining keys are in strictly ascending order.
LeadingKeysThenSorted ==
    pc = "returned" =>
        /\ Len(dict_out.v) >= 2
        /\ dict_out.v[1] = <<PyStr("address"), PyStr(AddressSpec[td.target.address])>>
        /\ dict_out.v[2] = <<PyStr("target_type"), PyStr(td.target.alias)>>
        /\ \A i \in 3..(Len(dict_out.v) - 1) :
              StrLess(dict_out.v[i][1].v, dict_out.v[i + 1][1].v)

====
